---- MODULE Spec2Model ----
(***************************************************************************)
(* Model of the adaptivecard package (src/unnamed/part_001): the element   *)
(* tree built by the constructors and the Add... / With... helpers, and    *)
(* the flattening done by toRaw and AdaptiveCard.MarshalJSON.              *)
(*                                                                         *)
(* Go slices are modelled as Go implements them: a slice is a header       *)
(* (pointer, len, cap) into a backing array on the heap, a struct copy     *)
(* copies the header and shares the array, and append writes in place      *)
(* when len < cap and allocates a doubled array otherwise.                 *)
(***************************************************************************)
EXTENDS Integers, Sequences, FiniteSets, TLC

\* ------------------------------------------------------------------ bounds

MaxBody == 2
MaxItems == 4
MaxOps == 6
MaxTreeOps == 4

\* ------------------------------------------------------------ slice headers

\* A nil slice (the zero value, and a variadic parameter given no argument).
NilSlice == [isnil |-> TRUE, ptr |-> 0, len |-> 0, cap |-> 0]

\* The non-nil empty slice of a literal such as []TableCol{}.
EmptySlice == [isnil |-> FALSE, ptr |-> 0, len |-> 0, cap |-> 0]

\* An array cell no append has written yet (a nil interface or zero struct).
ZeroCell == [kind |-> "nil"]

\* The elements a slice header makes visible, in order.
Elems(h, s) == [i \in 1..s.len |-> h[s.ptr][i]]

\* The slice a variadic call f(a, b, ...) passes for its "...T" parameter:
\* nil without arguments, otherwise a fresh array with len = cap = #args.
Variadic(h, args) ==
    IF Len(args) = 0
    THEN <<h, NilSlice>>
    ELSE <<Append(h, args),
           [isnil |-> FALSE, ptr |-> Len(h) + 1, len |-> Len(args), cap |-> Len(args)]>>

\* Capacity chosen by append when the array is full (runtime growslice for
\* capacities below 256: double, or the needed length if that is larger).
GrowCap(oldcap, needed) ==
    IF needed > 2 * oldcap THEN needed ELSE 2 * oldcap

\* Mutant of GoAppend: the new element is put in front.
GoAppendFront(h, s, v) ==
    LET arr == [i \in 1..(s.len + 1) |-> IF i = 1 THEN v ELSE h[s.ptr][i - 1]]
    IN <<Append(h, arr),
         [isnil |-> FALSE, ptr |-> Len(h) + 1, len |-> s.len + 1, cap |-> s.len + 1]>>

\* Go's append(s, v): returns the new heap and the new header.
GoAppend(h, s, v) ==
    IF s.len < s.cap
    THEN <<[h EXCEPT ![s.ptr][s.len + 1] = v], [s EXCEPT !.len = s.len + 1]>>
    ELSE LET newcap == GrowCap(s.cap, s.len + 1)
             arr == [i \in 1..newcap |->
                        IF i <= s.len THEN h[s.ptr][i]
                        ELSE IF i = s.len + 1 THEN v ELSE ZeroCell]
         IN <<Append(h, arr),
              [isnil |-> FALSE, ptr |-> Len(h) + 1, len |-> s.len + 1, cap |-> newcap]>>

\* ------------------------------------------------------------ constructors

NewTextBlock(text) ==
    [kind |-> "TextBlock", Type |-> "TextBlock", Text |-> text, Weight |-> "",
     Size |-> "", Wrap |-> TRUE, Separator |-> FALSE]

\* The struct literal of NewContainer, given the slice of its variadic items.
NewContainer(items) ==
    [kind |-> "Container", Type |-> "Container", Separator |-> FALSE, Items |-> items]

Fact(title, value) == [kind |-> "Fact", Title |-> title, Value |-> value]

NewFactSet(facts) ==
    [kind |-> "FactSet", Type |-> "FactSet", Facts |-> facts]

NewTable ==
    [kind |-> "Table", Type |-> "Table", Columns |-> EmptySlice, Rows |-> EmptySlice,
     FirstRowAsHeaders |-> TRUE]

NewTableCell(items) == [kind |-> "TableCell", Type |-> "TableCell", Items |-> items]

TableCol(width) == [kind |-> "TableCol", Width |-> width]

Action(type, title, url) == [kind |-> "Action", Type |-> type, Title |-> title, Url |-> url]

\* --------------------------------------------------------- field-set helpers

\* Mutant of TextBlock_WithWeight: rebuilds the block, losing Wrap.
TextBlock_WithWeightReset(t, weight) == [t EXCEPT !.Weight = weight, !.Wrap = FALSE]

TextBlock_WithWeight(t, weight) == [t EXCEPT !.Weight = weight]

TextBlock_WithSize(t, size) == [t EXCEPT !.Size = size]

TextBlock_WithSeparator(t) == [t EXCEPT !.Separator = TRUE]

Container_WithSeparator(c) == [c EXCEPT !.Separator = TRUE]

\* ------------------------------------------------------------ append helpers

NilTeams == [isnil |-> TRUE, Entities |-> NilSlice]

\* The card literal of main(): type, version and schema set, the rest zero.
NewCard ==
    [Type |-> "AdaptiveCard", Version |-> "1.6", Body |-> NilSlice,
     Schema |-> "http://adaptivecards.io/schemas/adaptive-card.json",
     Actions |-> NilSlice, MSTeams |-> NilTeams]

\* Each helper returns <<heap', receiver'>>.
AddBody(h, c, el) ==
    LET r == GoAppend(h, c.Body, el) IN <<r[1], [c EXCEPT !.Body = r[2]]>>

AddAction(h, c, action) ==
    LET r == GoAppend(h, c.Actions, action) IN <<r[1], [c EXCEPT !.Actions = r[2]]>>

\* Mutant of AddItem: a container added to itself is stored by reference (the
\* stored element sees the receiver's items after the append).
AddItemByRef(h, c, el) ==
    LET r == GoAppend(h, c.Items, el)
        self == [c EXCEPT !.Items = r[2]]
    IN IF el = c
       THEN <<[r[1] EXCEPT ![r[2].ptr][r[2].len] = self], self>>
       ELSE <<r[1], self>>

AddItem(h, c, el) ==
    LET r == GoAppend(h, c.Items, el) IN <<r[1], [c EXCEPT !.Items = r[2]]>>

AddColumn(h, t, width) ==
    LET r == GoAppend(h, t.Columns, TableCol(width)) IN <<r[1], [t EXCEPT !.Columns = r[2]]>>

\* cells is the argument list of the variadic call.
AddRow(h, t, cells) ==
    LET v == Variadic(h, cells)
        r == GoAppend(v[1], t.Rows, [kind |-> "TableRow", Type |-> "TableRow", Cells |-> v[2]])
    IN <<r[1], [t EXCEPT !.Rows = r[2]]>>

\* text := textPrefix; for each name: text += " <at>name</at>".
RECURSIVE MentionText(_, _)
MentionText(textPrefix, mentions) ==
    IF Len(mentions) = 0 THEN textPrefix
    ELSE MentionText(textPrefix \o " <at>" \o Head(mentions) \o "</at>", Tail(mentions))

TeamEntity ==
    [kind |-> "MSTeamsEntity", Type |-> "mention", Text |-> "@Team",
     Mentioned |-> [ID |-> "19:general@thread.tacv2", Name |-> "Team"]]

\* Mutant of AddMentionsMap: one entity per mentioned name.
AddMentionsMapPerName(h, c, textPrefix, mentions) ==
    LET RECURSIVE Rep(_, _, _)
        Rep(hh, s, n) == IF n = 0 THEN <<hh, s>>
                         ELSE LET r == GoAppend(hh, s, TeamEntity) IN Rep(r[1], r[2], n - 1)
        ents == IF c.MSTeams.isnil THEN EmptySlice ELSE c.MSTeams.Entities
        b == AddBody(h, c, NewTextBlock(MentionText(textPrefix, mentions)))
        e == Rep(b[1], ents, Len(mentions))
    IN <<e[1], [b[2] EXCEPT !.MSTeams = [isnil |-> FALSE, Entities |-> e[2]]]>>

AddMentionsMap(h, c, textPrefix, mentions) ==
    LET ents == IF c.MSTeams.isnil THEN EmptySlice ELSE c.MSTeams.Entities
        b == AddBody(h, c, NewTextBlock(MentionText(textPrefix, mentions)))
        e == GoAppend(b[1], ents, TeamEntity)
    IN <<e[1], [b[2] EXCEPT !.MSTeams = [isnil |-> FALSE, Entities |-> e[2]]]>>

\* -------------------------------------------------------------- flattening

\* Frames a flattening may use before the goroutine stack is exhausted.  A
\* path of the element graph that visits no array cell twice is no longer
\* than the number of cells, so a deeper recursion never ends in Go either.
RECURSIVE CellCount(_)
CellCount(h) == IF Len(h) = 0 THEN 0 ELSE Len(Head(h)) + CellCount(Tail(h))

StackFrames(h) == CellCount(h) + 2

\* What a flattening that does not return leaves in place of a value.
StackOverflow == [kind |-> "overflow"]
NilDereference == [kind |-> "panic"]

TextBlock_toRaw(t) == t

FactSet_toRaw(fs) == fs

RECURSIVE Element_toRaw(_, _, _)

\* Mutant of Container_toRaw: the separator flag is copied to the output.
Container_toRawWithSeparator(h, c, fuel) ==
    [kind |-> "rawContainer", Type |-> "Container", Separator |-> c.Separator,
     Items |-> [i \in 1..c.Items.len |-> Element_toRaw(h, h[c.Items.ptr][i], fuel)]]

\* Mutant of Container_toRaw: ranges over the capacity of the items array.
Container_toRawToCap(h, c, fuel) ==
    [kind |-> "rawContainer", Type |-> "Container",
     Items |-> [i \in 1..c.Items.cap |-> Element_toRaw(h, h[c.Items.ptr][i], fuel)]]

Container_toRaw(h, c, fuel) ==
    [kind |-> "rawContainer", Type |-> "Container",
     Items |-> [i \in 1..c.Items.len |-> Element_toRaw(h, h[c.Items.ptr][i], fuel)]]

\* Mutant of TableCell_toRaw: items are not flattened (an empty list).
TableCell_toRawEmpty(h, tc, fuel) ==
    [kind |-> "rawCell", Type |-> tc.Type, Items |-> << >>]

TableCell_toRaw(h, tc, fuel) ==
    IF fuel = 0 THEN StackOverflow
    ELSE [kind |-> "rawCell", Type |-> tc.Type,
          Items |-> [i \in 1..tc.Items.len |->
                        Element_toRaw(h, h[tc.Items.ptr][i], fuel - 1)]]

TableRow_toRaw(h, tr, fuel) ==
    IF fuel = 0 THEN StackOverflow
    ELSE [kind |-> "rawRow", Type |-> tr.Type,
          Cells |-> [i \in 1..tr.Cells.len |->
                        TableCell_toRaw(h, h[tr.Cells.ptr][i], fuel - 1)]]

Table_toRaw(h, t, fuel) ==
    [kind |-> "rawTable", Type |-> t.Type, Columns |-> t.Columns,
     Rows |-> [i \in 1..t.Rows.len |-> TableRow_toRaw(h, h[t.Rows.ptr][i], fuel)]]

\* el.toRaw() on an Element interface value: dynamic dispatch on the variant.
Element_toRaw(h, el, fuel) ==
    IF fuel = 0 THEN StackOverflow
    ELSE CASE el.kind = "TextBlock" -> TextBlock_toRaw(el)
           [] el.kind = "FactSet" -> FactSet_toRaw(el)
           [] el.kind = "Container" -> Container_toRaw(h, el, fuel - 1)
           [] el.kind = "Table" -> Table_toRaw(h, el, fuel - 1)
           [] OTHER -> NilDereference

\* Whether a flattening ended in a value (no stack overflow, no panic).
RECURSIVE Returned(_)
Returned(raw) ==
    CASE raw.kind \in {"overflow", "panic"} -> FALSE
      [] raw.kind \in {"rawContainer", "rawCell"} ->
            \A i \in 1..Len(raw.Items) : Returned(raw.Items[i])
      [] raw.kind = "rawRow" -> \A i \in 1..Len(raw.Cells) : Returned(raw.Cells[i])
      [] raw.kind = "rawTable" -> \A i \in 1..Len(raw.Rows) : Returned(raw.Rows[i])
      [] OTHER -> TRUE

\* ------------------------------------------------ encoding/json on the raw form

\* A JSON document: tagged values; an object is its members in field order.
JNull == <<"null">>
JStr(s) == <<"str", s>>
JBool(b) == <<"bool", b>>
JArr(vals) == <<"arr", vals>>

\* An object from <<key, value, emitted>> triples: a field tagged omitempty
\* is emitted only when its value is not the empty value of its type.
JObj(fields) ==
    LET kept == SelectSeq(fields, LAMBDA f : f[3])
    IN <<"obj", [i \in 1..Len(kept) |-> <<kept[i][1], kept[i][2]>>]>>

Always == TRUE

\* A slice-typed field: null for a nil slice, an array otherwise.
JSlice(s, vals) == IF s.isnil THEN JNull ELSE JArr(vals)

EncTextBlock(t) ==
    JObj(<< <<"type", JStr(t.Type), Always>>,
            <<"text", JStr(t.Text), Always>>,
            <<"weight", JStr(t.Weight), t.Weight # "">>,
            <<"size", JStr(t.Size), t.Size # "">>,
            <<"wrap", JBool(t.Wrap), t.Wrap>>,
            <<"separator", JBool(t.Separator), t.Separator>> >>)

EncFact(f) ==
    JObj(<< <<"title", JStr(f.Title), Always>>, <<"value", JStr(f.Value), Always>> >>)

EncFactSet(h, fs) ==
    JObj(<< <<"type", JStr(fs.Type), Always>>,
            <<"facts", JSlice(fs.Facts, [i \in 1..fs.Facts.len |-> EncFact(h[fs.Facts.ptr][i])]),
              Always>> >>)

EncTableCol(c) == JObj(<< <<"width", JStr(c.Width), Always>> >>)

EncAction(a) ==
    JObj(<< <<"type", JStr(a.Type), Always>>,
            <<"title", JStr(a.Title), Always>>,
            <<"url", JStr(a.Url), a.Url # "">> >>)

EncEntity(e) ==
    JObj(<< <<"type", JStr(e.Type), Always>>,
            <<"text", JStr(e.Text), Always>>,
            <<"mentioned", JObj(<< <<"id", JStr(e.Mentioned.ID), Always>>,
                                   <<"name", JStr(e.Mentioned.Name), Always>> >>), Always>> >>)

EncTeams(h, m) ==
    JObj(<< <<"entities",
              JSlice(m.Entities, [i \in 1..m.Entities.len |-> EncEntity(h[m.Entities.ptr][i])]),
              Always>> >>)

\* The value an "any" holds, encoded by its dynamic type.  The []any slices
\* of the raw structs come from make and are never nil.
RECURSIVE EncRaw(_, _)
EncRaw(h, raw) ==
    CASE raw.kind = "TextBlock" -> EncTextBlock(raw)
      [] raw.kind = "FactSet" -> EncFactSet(h, raw)
      [] raw.kind = "rawContainer" ->
            JObj(<< <<"type", JStr(raw.Type), Always>>,
                    <<"items", JArr([i \in 1..Len(raw.Items) |-> EncRaw(h, raw.Items[i])]),
                      Always>> >>)
      [] raw.kind = "rawCell" ->
            JObj(<< <<"type", JStr(raw.Type), Always>>,
                    <<"items", JArr([i \in 1..Len(raw.Items) |-> EncRaw(h, raw.Items[i])]),
                      Always>> >>)
      [] raw.kind = "rawRow" ->
            JObj(<< <<"type", JStr(raw.Type), Always>>,
                    <<"cells", JArr([i \in 1..Len(raw.Cells) |-> EncRaw(h, raw.Cells[i])]),
                      Always>> >>)
      [] raw.kind = "rawTable" ->
            JObj(<< <<"type", JStr(raw.Type), Always>>,
                    <<"columns",
                      JSlice(raw.Columns,
                             [i \in 1..raw.Columns.len |-> EncTableCol(h[raw.Columns.ptr][i])]),
                      Always>>,
                    <<"rows", JArr([i \in 1..Len(raw.Rows) |-> EncRaw(h, raw.Rows[i])]),
                      Always>> >>)

\* The body of MarshalJSON before the encoder: body[i] = c.Body[i].toRaw().
FlattenBody(h, c) ==
    [i \in 1..c.Body.len |-> Element_toRaw(h, h[c.Body.ptr][i], StackFrames(h))]

\* Mutant of EncCard: actions and msteams written even when empty.
EncCardNoOmit(h, c, body) ==
    JObj(<< <<"type", JStr(c.Type), Always>>,
            <<"version", JStr(c.Version), Always>>,
            <<"body", JArr([i \in 1..Len(body) |-> EncRaw(h, body[i])]), Always>>,
            <<"$schema", JStr(c.Schema), Always>>,
            <<"actions",
              JSlice(c.Actions, [i \in 1..c.Actions.len |-> EncAction(h[c.Actions.ptr][i])]),
              Always>>,
            <<"msteams", IF c.MSTeams.isnil THEN JNull ELSE EncTeams(h, c.MSTeams), Always>> >>)

\* json.Marshal of the raw struct of MarshalJSON.
EncCard(h, c, body) ==
    JObj(<< <<"type", JStr(c.Type), Always>>,
            <<"version", JStr(c.Version), Always>>,
            <<"body", JArr([i \in 1..Len(body) |-> EncRaw(h, body[i])]), Always>>,
            <<"$schema", JStr(c.Schema), Always>>,
            <<"actions",
              JArr([i \in 1..c.Actions.len |-> EncAction(h[c.Actions.ptr][i])]),
              c.Actions.len > 0>>,
            <<"msteams", EncTeams(h, c.MSTeams), ~c.MSTeams.isnil>> >>)

\* The process died inside MarshalJSON (fatal stack overflow or a panic).
Aborted == [returned |-> FALSE]

\* MarshalJSON: ([]byte, error) as returned, or Aborted when it never returns.
\* The encoder has no failure on these types: strings, booleans and slices.
MarshalJSON(h, c) ==
    LET body == FlattenBody(h, c)
    IN IF \A i \in 1..Len(body) : Returned(body[i])
       THEN [returned |-> TRUE, doc |-> EncCard(h, c, body), err |-> "nil"]
       ELSE Aborted

\* Members of a JSON object.
Keys(obj) == [i \in 1..Len(obj[2]) |-> obj[2][i][1]]
HasKey(obj, k) == \E i \in 1..Len(obj[2]) : obj[2][i][1] = k
Get(obj, k) == obj[2][CHOOSE i \in 1..Len(obj[2]) : obj[2][i][1] = k][2]

\* ------------------------------------------------------------------- state

VARIABLES
    heap,   \* the backing arrays allocated so far, by address
    tb,     \* the caller's TextBlock variable
    cv,     \* the caller's Container variables
    tv,     \* the caller's Table variable
    card,   \* the AdaptiveCard
    out,    \* what MarshalJSON returned, NoOutput before the call
    ops,    \* calls made so far
    x       \* the documents the calls made so far describe (see below)

vars == <<heap, tb, cv, tv, card, out, ops, x>>

NoOutput == [returned |-> FALSE, pending |-> TRUE]

CVars == {1, 2}

\* Inputs of the calls.
Texts == <<"a", "b">>
Weights == {"Bolder"}
Sizes == {"Large"}
Widths == {"auto", "stretch"}
Facts == <<Fact("Repo", "r"), Fact("Image", "1.0.0")>>
Actions == {Action("Action.OpenUrl", "View", "https://example.org"),
            Action("Action.Submit", "Ok", "")}
Prefixes == {"Hello"}
Names == {<< >>, <<"Alice">>, <<"Alice", "Bob">>}

(***************************************************************************)
(* The argument expressions a caller writes, as <<kind, n>>:               *)
(*   <<"tb", 0>>     the TextBlock variable                                *)
(*   <<"text", k>>   NewTextBlock(Texts[k])                                *)
(*   <<"facts", n>>  NewFactSet(Facts[1], ..., Facts[n])                   *)
(*   <<"cv", i>>     the Container variable i                              *)
(*   <<"tv", 0>>     the Table variable                                    *)
(*   <<"newc", 0>>   NewContainer()                                        *)
(*   <<"newt", 0>>   NewTable()                                            *)
(* Arg evaluates one to <<heap', element>>; an argument is passed by value.*)
(***************************************************************************)
Arg(h, d) ==
    CASE d[1] = "tb" -> <<h, tb>>
      [] d[1] = "text" -> <<h, NewTextBlock(Texts[d[2]])>>
      [] d[1] = "facts" ->
            LET v == Variadic(h, SubSeq(Facts, 1, d[2])) IN <<v[1], NewFactSet(v[2])>>
      [] d[1] = "cv" -> <<h, cv[d[2]]>>
      [] d[1] = "tv" -> <<h, tv>>
      [] d[1] = "newc" -> <<h, NewContainer(NilSlice)>>
      [] d[1] = "newt" -> <<h, NewTable>>

\* The arguments of a variadic call, evaluated left to right.
RECURSIVE Args(_, _)
Args(h, ds) ==
    IF Len(ds) = 0 THEN <<h, << >> >>
    ELSE LET a == Arg(h, Head(ds))
             r == Args(a[1], Tail(ds))
         IN <<r[1], <<a[2]>> \o r[2]>>

\* NewTableCell(items...) for each cell of a row, evaluated left to right.
RECURSIVE Cells(_, _)
Cells(h, cs) ==
    IF Len(cs) = 0 THEN <<h, << >> >>
    ELSE LET a == Args(h, Head(cs))
             v == Variadic(a[1], a[2])
             r == Cells(v[1], Tail(cs))
         IN <<r[1], <<NewTableCell(v[2])>> \o r[2]>>

(***************************************************************************)
(* x records, for every sequence of the tree, the documents its calls      *)
(* describe in call order: the wire shape of section 6 of the              *)
(* specification applied to the arguments as they were when passed.  It is *)
(* kept beside the Go state and never read by the modelled code.           *)
(***************************************************************************)
XContainer(items) ==
    <<"obj", << <<"type", JStr("Container")>>, <<"items", JArr(items)>> >> >>

XCell(items) ==
    <<"obj", << <<"type", JStr("TableCell")>>, <<"items", JArr(items)>> >> >>

XRow(cells) ==
    <<"obj", << <<"type", JStr("TableRow")>>, <<"cells", JArr(cells)>> >> >>

XTable(cols, rows) ==
    <<"obj", << <<"type", JStr("Table")>>, <<"columns", JArr(cols)>>,
                <<"rows", JArr(rows)>> >> >>

XCol(width) == <<"obj", << <<"width", JStr(width)>> >> >>

\* The document of an argument; a leaf is taken as its own encoding.
XArg(d) ==
    CASE d[1] = "tb" -> EncTextBlock(tb)
      [] d[1] = "text" -> EncTextBlock(NewTextBlock(Texts[d[2]]))
      [] d[1] = "facts" ->
            LET a == Arg(heap, d) IN EncFactSet(a[1], a[2])
      [] d[1] = "cv" -> XContainer(x.items[d[2]])
      [] d[1] = "tv" -> XTable(x.cols, x.rows)
      [] d[1] = "newc" -> XContainer(<< >>)
      [] d[1] = "newt" -> XTable(<< >>, << >>)

XArgs(ds) == [k \in 1..Len(ds) |-> XArg(ds[k])]

XCells(cs) == [k \in 1..Len(cs) |-> XCell(XArgs(cs[k]))]

Init ==
    /\ heap = << >>
    /\ tb = NewTextBlock(Texts[1])
    /\ cv = [i \in CVars |-> NewContainer(NilSlice)]
    /\ tv = NewTable
    /\ card = NewCard
    /\ out = NoOutput
    /\ ops = 0
    /\ x = [items |-> [i \in CVars |-> << >>], cols |-> << >>, rows |-> << >>,
            body |-> << >>, actions |-> << >>, entities |-> 0]

\* A call is made while the card has not been serialized.
Calling ==
    /\ out = NoOutput
    /\ ops < MaxOps
    /\ ops' = ops + 1
    /\ out' = out

\* ----------------------------------------------------------------- actions

\* tb = NewTextBlock(text)
NewTextBlockOp(text) ==
    /\ Calling
    /\ tb' = NewTextBlock(text)
    /\ UNCHANGED <<heap, cv, tv, card, x>>

\* tb.WithWeight(weight)
WithWeightOp(weight) ==
    /\ Calling
    /\ tb' = TextBlock_WithWeight(tb, weight)
    /\ UNCHANGED <<heap, cv, tv, card, x>>

\* tb.WithSize(size)
WithSizeOp(size) ==
    /\ Calling
    /\ tb' = TextBlock_WithSize(tb, size)
    /\ UNCHANGED <<heap, cv, tv, card, x>>

\* tb.WithSeparator()
WithSeparatorOp ==
    /\ Calling
    /\ tb' = TextBlock_WithSeparator(tb)
    /\ UNCHANGED <<heap, cv, tv, card, x>>

\* cv[i] = NewContainer(ds...)
NewContainerOp(i, ds) ==
    /\ Calling
    /\ LET a == Args(heap, ds)
           v == Variadic(a[1], a[2])
       IN /\ heap' = v[1]
          /\ cv' = [cv EXCEPT ![i] = NewContainer(v[2])]
    /\ x' = [x EXCEPT !.items[i] = XArgs(ds)]
    /\ UNCHANGED <<tb, tv, card>>

\* cv[i].AddItem(d)
AddItemOp(i, d) ==
    /\ Calling
    /\ cv[i].Items.len < MaxItems
    /\ LET a == Arg(heap, d)
           r == AddItem(a[1], cv[i], a[2])
       IN /\ heap' = r[1]
          /\ cv' = [cv EXCEPT ![i] = r[2]]
    /\ x' = [x EXCEPT !.items[i] = Append(@, XArg(d))]
    /\ UNCHANGED <<tb, tv, card>>

\* cv[i].WithSeparator()
ContainerWithSeparatorOp(i) ==
    /\ Calling
    /\ cv' = [cv EXCEPT ![i] = Container_WithSeparator(cv[i])]
    /\ UNCHANGED <<heap, tb, tv, card, x>>

\* cv[i] = cv[j]: Go's assignment of a struct value.
AssignOp(i, j) ==
    /\ Calling
    /\ i # j
    /\ cv' = [cv EXCEPT ![i] = cv[j]]
    /\ x' = [x EXCEPT !.items[i] = x.items[j]]
    /\ UNCHANGED <<heap, tb, tv, card>>

\* tv.AddColumn(width)
AddColumnOp(width) ==
    /\ Calling
    /\ tv.Columns.len < MaxItems
    /\ LET r == AddColumn(heap, tv, width)
       IN /\ heap' = r[1]
          /\ tv' = r[2]
    /\ x' = [x EXCEPT !.cols = Append(@, XCol(width))]
    /\ UNCHANGED <<tb, cv, card>>

\* tv.AddRow(NewTableCell(cs[1]...), NewTableCell(cs[2]...), ...)
AddRowOp(cs) ==
    /\ Calling
    /\ tv.Rows.len < MaxItems
    /\ LET c == Cells(heap, cs)
           r == AddRow(c[1], tv, c[2])
       IN /\ heap' = r[1]
          /\ tv' = r[2]
    /\ x' = [x EXCEPT !.rows = Append(@, XRow(XCells(cs)))]
    /\ UNCHANGED <<tb, cv, card>>

\* card.AddBody(d)
AddBodyOp(d) ==
    /\ Calling
    /\ card.Body.len < MaxBody
    /\ LET a == Arg(heap, d)
           r == AddBody(a[1], card, a[2])
       IN /\ heap' = r[1]
          /\ card' = r[2]
    /\ x' = [x EXCEPT !.body = Append(@, XArg(d))]
    /\ UNCHANGED <<tb, cv, tv>>

\* card.AddAction(action)
AddActionOp(action) ==
    /\ Calling
    /\ card.Actions.len < MaxBody
    /\ LET r == AddAction(heap, card, action)
       IN /\ heap' = r[1]
          /\ card' = r[2]
    /\ x' = [x EXCEPT !.actions = Append(@, EncAction(action))]
    /\ UNCHANGED <<tb, cv, tv>>

\* card.AddMentionsMap(textPrefix, mentions)
AddMentionsMapOp(textPrefix, mentions) ==
    /\ Calling
    /\ card.Body.len < MaxBody
    /\ LET r == AddMentionsMap(heap, card, textPrefix, mentions)
       IN /\ heap' = r[1]
          /\ card' = r[2]
    /\ x' = [x EXCEPT !.body = Append(@, EncTextBlock(NewTextBlock(MentionText(textPrefix, mentions)))),
                      !.entities = @ + 1]
    /\ UNCHANGED <<tb, cv, tv>>

\* out = card.MarshalJSON(), the last call of the run as in main().
MarshalOp ==
    /\ out = NoOutput
    /\ out' = MarshalJSON(heap, card)
    /\ UNCHANGED <<heap, tb, cv, tv, card, ops, x>>

\* ---------------------------------------------------------- specifications

\* Text blocks: the constructor, the With... helpers and the card body.
NextText ==
    \/ \E k \in 1..Len(Texts) : NewTextBlockOp(Texts[k])
    \/ \E w \in Weights : WithWeightOp(w)
    \/ \E s \in Sizes : WithSizeOp(s)
    \/ WithSeparatorOp
    \/ AddBodyOp(<<"tb", 0>>)
    \/ MarshalOp

SpecText == Init /\ [][NextText]_vars

\* The card root: body, actions, mentions and serialization.
RootArgs == {<<"text", 1>>, <<"facts", 0>>, <<"facts", 2>>, <<"newc", 0>>, <<"newt", 0>>}

NextCard ==
    \/ \E d \in RootArgs : AddBodyOp(d)
    \/ \E a \in Actions : AddActionOp(a)
    \/ \E p \in Prefixes, n \in Names : AddMentionsMapOp(p, n)
    \/ MarshalOp

SpecCard == Init /\ [][NextCard]_vars

\* The element tree: containers, tables, the card body and its actions.
\* Container 1 takes text blocks and itself, container 2 takes container 1.
ItemArgs == {<<1, <<"text", 1>> >>, <<1, <<"cv", 1>> >>, <<2, <<"cv", 1>> >>}
BodyArgs == {<<"cv", 1>>, <<"cv", 2>>, <<"tv", 0>>}
InitialItems == {<< <<"text", 1>>, <<"text", 2>> >>}
RowArgs == {<< >>,
            << << <<"text", 1>> >>, << <<"text", 2>> >> >>,
            << << <<"cv", 2>>, <<"text", 1>> >>, << >> >>}

Next ==
    \/ /\ ops < MaxTreeOps
       /\ \/ \E ds \in InitialItems : NewContainerOp(1, ds)
          \/ \E a \in ItemArgs : AddItemOp(a[1], a[2])
          \/ ContainerWithSeparatorOp(1)
          \/ \E w \in Widths : AddColumnOp(w)
          \/ \E cs \in RowArgs : AddRowOp(cs)
          \/ \E d \in BodyArgs : AddBodyOp(d)
          \/ \E a \in Actions : AddActionOp(a)
    \/ MarshalOp

Spec == Init /\ [][Next]_vars

\* The same with Go's assignment of one Container variable to another.
CopyArgs == {<<"text", 1>>, <<"text", 2>>, <<"cv", 1>>}

NextCopy ==
    \/ \E ds \in InitialItems : NewContainerOp(1, ds)
    \/ \E i \in CVars, d \in CopyArgs : AddItemOp(i, d)
    \/ \E i \in CVars, j \in CVars : AssignOp(i, j)
    \/ \E i \in CVars : AddBodyOp(<<"cv", i>>)
    \/ MarshalOp

SpecCopy == Init /\ [][NextCopy]_vars

\* ------------------------------------------------------------------ claims

\* The flattened, encoded form of an element as it is now.
Flat(el) ==
    LET raw == Element_toRaw(heap, el, StackFrames(heap))
    IN IF Returned(raw) THEN EncRaw(heap, raw) ELSE <<"aborted">>

Members(arr) == arr[2]
IsType(doc, t) == doc[1] = "obj" /\ HasKey(doc, "type") /\ Get(doc, "type") = JStr(t)

Kids(v) ==
    CASE v.kind \in {"Container", "TableCell"} ->
            {<<v.Items.ptr, j>> : j \in 1..v.Items.len}
      [] v.kind = "Table" -> {<<v.Rows.ptr, j>> : j \in 1..v.Rows.len}
      [] v.kind = "TableRow" -> {<<v.Cells.ptr, j>> : j \in 1..v.Cells.len}
      [] OTHER -> {}

At(n) == heap[n[1]][n[2]]

\* The cells reachable from a set of cells.
RECURSIVE Reach(_)
Reach(S) ==
    LET T == S \cup UNION {Kids(At(n)) : n \in S}
    IN IF T = S THEN S ELSE Reach(T)

BodyCells == {<<card.Body.ptr, k>> : k \in 1..card.Body.len}

C5_TableThreeLevels ==
    LET raw == Table_toRaw(heap, tv, StackFrames(heap))
        doc == EncRaw(heap, raw)
    IN /\ raw.Type = "Table"
       /\ raw.Columns = tv.Columns
       /\ Get(doc, "columns") = JArr(x.cols)
       /\ Len(raw.Rows) = tv.Rows.len
       /\ Len(raw.Rows) = Len(x.rows)
       /\ \A r \in 1..Len(raw.Rows) :
            LET row == heap[tv.Rows.ptr][r]
            IN /\ raw.Rows[r].Type = "TableRow"
               /\ Len(raw.Rows[r].Cells) = row.Cells.len
               /\ Len(raw.Rows[r].Cells) = Len(Members(Get(x.rows[r], "cells")))
               /\ \A c \in 1..row.Cells.len :
                    LET cell == heap[row.Cells.ptr][c]
                        rc == raw.Rows[r].Cells[c]
                    IN /\ rc.Type = "TableCell"
                       /\ Len(rc.Items) = cell.Items.len
                       /\ \A i \in 1..cell.Items.len :
                            EncRaw(heap, rc.Items[i]) = Flat(heap[cell.Items.ptr][i])
                       /\ EncRaw(heap, rc) = Members(Get(x.rows[r], "cells"))[c]

\* One column of width "auto" and one row of two cells with a TextBlock each.
C5_Witness ==
    /\ tv.Columns.len = 1 /\ heap[tv.Columns.ptr][1].Width = "auto"
    /\ tv.Rows.len = 1
    /\ heap[tv.Rows.ptr][1].Cells.len = 2
    /\ \A c \in 1..2 :
         LET cell == heap[heap[tv.Rows.ptr][1].Cells.ptr][c]
         IN cell.Items.len = 1 /\ heap[cell.Items.ptr][1].kind = "TextBlock"

\* C6: Container.toRaw yields exactly the fields type = "Container" and
\* items = the flattened children in order; the separator flag is not in the
\* output, so containers that differ only in it flatten identically.
C6_ContainerTwoFields ==
    /\ \A i \in CVars :
         LET raw == Container_toRaw(heap, cv[i], StackFrames(heap))
             doc == EncRaw(heap, raw)
         IN /\ DOMAIN raw = {"kind", "Type", "Items"}
            /\ Keys(doc) = <<"type", "items">>
            /\ Get(doc, "type") = JStr("Container")
            /\ Get(doc, "items") = JArr(x.items[i])
            /\ Container_toRaw(heap, [cv[i] EXCEPT !.Separator = ~@], StackFrames(heap))
                 = Container_toRaw(heap, cv[i], StackFrames(heap))
    /\ \A p \in 1..Len(heap) : \A k \in 1..Len(heap[p]) :
         heap[p][k].kind = "Container" =>
            LET raw == Container_toRaw(heap, heap[p][k], StackFrames(heap))
            IN /\ DOMAIN raw = {"kind", "Type", "Items"}
               /\ raw.Type = "Container"
               /\ Len(raw.Items) = heap[p][k].Items.len

\* A container with children on which WithSeparator was called, and a copy
\* of a container with the flag set stored in the tree.
C6_Witness ==
    /\ \E i \in CVars : cv[i].Separator /\ cv[i].Items.len >= 2
    /\ \E p \in 1..Len(heap) : \E k \in 1..Len(heap[p]) :
         heap[p][k].kind = "Container" /\ heap[p][k].Separator

C2_OptionalKeys ==
    out # NoOutput =>
        /\ out.returned
        /\ HasKey(out.doc, "actions") <=> Len(x.actions) > 0
        /\ HasKey(out.doc, "msteams") <=> x.entities > 0
        /\ (x.body = << >> /\ x.actions = << >> /\ x.entities = 0) =>
              out.doc = <<"obj", << <<"type", JStr("AdaptiveCard")>>,
                                    <<"version", JStr(card.Version)>>,
                                    <<"body", JArr(<< >>)>>,
                                    <<"$schema", JStr(card.Schema)>> >> >>

\* A serialized card with an action and no mention, so that one optional key
\* is present and the other absent.
C2_Witness ==
    /\ out # NoOutput /\ out.returned
    /\ HasKey(out.doc, "actions") /\ ~HasKey(out.doc, "msteams")
    /\ Keys(out.doc) = <<"type", "version", "body", "$schema", "actions">>

\* " <at>name</at>" for each name, in order.
RECURSIVE AtTags(_)
AtTags(names) ==
    IF names = << >> THEN ""
    ELSE " <at>" \o Head(names) \o "</at>" \o AtTags(Tail(names))

EntitiesOf(h, c) == IF c.MSTeams.isnil THEN << >> ELSE Elems(h, c.MSTeams.Entities)

\* C3: a call AddMentionsMap(prefix, names) appends one TextBlock to the end
\* of the body, with text prefix followed by " <at>name</at>" per name, and
\* one "@Team" entity to the metadata whatever the number of names, creates
\* the metadata if absent and leaves earlier body elements and entities as
\* they were; after k calls on a fresh card there are k entities.
C3_MentionsAppendOne ==
    [][\A p \in Prefixes, n \in Names :
          AddMentionsMapOp(p, n) =>
             LET old == Elems(heap, card.Body)
                 new == Elems(heap', card'.Body)
                 olde == EntitiesOf(heap, card)
                 newe == EntitiesOf(heap', card')
             IN /\ Len(new) = Len(old) + 1
                /\ SubSeq(new, 1, Len(old)) = old
                /\ new[Len(new)].kind = "TextBlock"
                /\ new[Len(new)].Type = "TextBlock"
                /\ new[Len(new)].Text = p \o AtTags(n)
                /\ ~card'.MSTeams.isnil
                /\ Len(newe) = Len(olde) + 1
                /\ SubSeq(newe, 1, Len(olde)) = olde
                /\ newe[Len(newe)].Text = "@Team"
                /\ newe[Len(newe)].Mentioned.Name = "Team"
                /\ Len(newe) = x'.entities]_vars

\* Two calls were made, one of them with the names Alice and Bob, and the
\* metadata holds two entities.
C3_Witness ==
    /\ x.entities = 2
    /\ ~card.MSTeams.isnil /\ card.MSTeams.Entities.len = 2
    /\ \E k \in 1..card.Body.len :
         /\ heap[card.Body.ptr][k].kind = "TextBlock"
         /\ heap[card.Body.ptr][k].Text = "Hello <at>Alice</at> <at>Bob</at>"

\* C7: NewTextBlock(text) returns type "TextBlock", the text, Wrap = true and
\* weight, size and separator unset; WithWeight, WithSize and WithSeparator
\* change their own field only, so Wrap stays true.
C7_TextBlockFrame ==
    [][/\ \A k \in 1..Len(Texts) :
            NewTextBlockOp(Texts[k]) =>
               tb' = [kind |-> "TextBlock", Type |-> "TextBlock", Text |-> Texts[k],
                      Weight |-> "", Size |-> "", Wrap |-> TRUE, Separator |-> FALSE]
       /\ \A w \in Weights : WithWeightOp(w) => tb' = [tb EXCEPT !.Weight = w]
       /\ \A z \in Sizes : WithSizeOp(z) => tb' = [tb EXCEPT !.Size = z]
       /\ WithSeparatorOp => tb' = [tb EXCEPT !.Separator = TRUE]
       /\ tb'.Wrap /\ tb'.Type = "TextBlock"]_vars

\* A text block on which the three helpers were called, Wrap still true.
C7_Witness ==
    /\ tb.Weight = "Bolder" /\ tb.Size = "Large" /\ tb.Separator
    /\ tb.Wrap /\ tb.Text = "b"

\* C9: an element is stored by value when it is passed: a later call on the
\* caller's variable or on a copy of it, which does not touch the card,
\* leaves the flattened body of the card as it was.
C9_StoredByValue ==
    [][card' = card => FlattenBody(heap', card') = FlattenBody(heap, card)]_vars

\* Members of a document that the wire shape gives as sequences.
SequenceKeys == {"body", "items", "facts", "columns", "rows", "cells"}

RECURSIVE NoNullSequence(_)
NoNullSequence(doc) ==
    CASE doc[1] = "obj" ->
            \A k \in 1..Len(doc[2]) :
                /\ doc[2][k][1] \in SequenceKeys => doc[2][k][2][1] = "arr"
                /\ NoNullSequence(doc[2][k][2])
      [] doc[1] = "arr" -> \A k \in 1..Len(doc[2]) : NoNullSequence(doc[2][k])
      [] OTHER -> TRUE

\* C10: every sequence-valued member of the serialized document (body,
\* items, facts, columns, rows, cells) is a sequence, empty when it has no
\* members, never null.
C10_SequencesNeverNull ==
    out # NoOutput /\ out.returned => NoNullSequence(out.doc)

====
